---- MODULE Spec2Model ----
(***************************************************************************)
(* State-machine model of the physics core of nbody-simulation             *)
(* (src/src/main.rs): the startup system `setup`, and the three systems    *)
(* update_acceleration, update_velocity and movement that the Bevy         *)
(* schedule runs once per frame, ordered by their labels.  The camera      *)
(* systems touch only the camera entity and are left out.                  *)
(*                                                                         *)
(* Numbers.  The source computes in f32.  The model computes in exact      *)
(* rationals extended with the IEEE special values: a number is a record   *)
(* [n, d] with d > 0 and gcd(n, d) = 1, or d = 0 for a special value       *)
(* (n = 0: NaN, n = 1: +Inf, n = -1: -Inf).  Rounding and the sign of zero *)
(* are not modelled.  A result the model cannot hold (a numerator or       *)
(* denominator beyond MaxInt, an irrational square root) is the value      *)
(* Unrepresentable, which every operation propagates; a system is followed *)
(* only while the values it reads and writes are representable             *)
(* (ExactLengths, InRange), so nothing is concluded about runs beyond.     *)
(***************************************************************************)
EXTENDS Integers, Sequences, FiniteSets

VARIABLES templates, bodies, started, ran, step, frameStart, passLog

vars == <<templates, bodies, started, ran, step, frameStart, passLog>>

(***************************************************************************)
(* Bounds of the exploration: the number of frames a run is followed for,  *)
(* and the largest numerator or denominator the arithmetic forms.          *)
(***************************************************************************)
MaxSteps == 2

MaxInt == 1000000000

----------------------------------------------------------------------------
(* f32 arithmetic                                                          *)

Abs(x) == IF x < 0 THEN -x ELSE x

Sign(x) == IF x > 0 THEN 1 ELSE IF x < 0 THEN -1 ELSE 0

RECURSIVE Gcd(_, _)
Gcd(a, b) == IF b = 0 THEN a ELSE Gcd(b, a % b)

(* the number n/d in lowest terms; a zero denominator gives a special value *)
Q(n, d) ==
    IF d = 0 THEN [n |-> Sign(n), d |-> 0]
    ELSE LET g == Gcd(Abs(n), Abs(d))
         IN  [n |-> Sign(d) * (n \div g), d |-> Abs(d) \div g]

Int2F(k) == [n |-> k, d |-> 1]

Zero == Int2F(0)

NaN == [n |-> 0, d |-> 0]

Unrepresentable == [n |-> 2, d |-> 0]

(* the product x * y stays within MaxInt *)
Fits(x, y) == x = 0 \/ Abs(y) <= MaxInt \div Abs(x)

is_finite(a) == a.d # 0

is_nan(a) == a.d = 0 /\ a.n = 0

FNeg(a) == IF a = Unrepresentable THEN a ELSE [n |-> -a.n, d |-> a.d]

FAdd(a, b) ==
    IF a = Unrepresentable \/ b = Unrepresentable THEN Unrepresentable
    ELSE IF a.d = 0 /\ b.d = 0 THEN (IF a.n = b.n THEN a ELSE NaN)
    ELSE IF a.d = 0 THEN a
    ELSE IF b.d = 0 THEN b
    ELSE LET g  == Gcd(a.d, b.d)
             ad == a.d \div g
             bd == b.d \div g
         IN  IF Fits(a.n, bd) /\ Fits(b.n, ad) /\ Fits(ad, b.d)
             THEN Q(a.n * bd + b.n * ad, ad * b.d)
             ELSE Unrepresentable

FSub(a, b) == FAdd(a, FNeg(b))

(* Inf * 0 and anything * NaN come out as [0, 0], Inf * x as [Sign(x), 0] *)
FMul(a, b) ==
    IF a = Unrepresentable \/ b = Unrepresentable THEN Unrepresentable
    ELSE IF a.d = 0 \/ b.d = 0 THEN Q(Sign(a.n) * Sign(b.n), 0)
    ELSE LET g1 == Gcd(Abs(a.n), b.d)
             g2 == Gcd(Abs(b.n), a.d)
             an == a.n \div g1
             bn == b.n \div g2
             ad == a.d \div g2
             bd == b.d \div g1
         IN  IF Fits(an, bn) /\ Fits(ad, bd)
             THEN [n |-> an * bn, d |-> ad * bd]
             ELSE Unrepresentable

recip(a) ==
    IF a = Unrepresentable THEN a
    ELSE IF a.d = 0 THEN (IF a.n = 0 THEN NaN ELSE Zero)
    ELSE IF a.n = 0 THEN [n |-> 1, d |-> 0]
    ELSE [n |-> Sign(a.n) * a.d, d |-> Abs(a.n)]

FDiv(a, b) == FMul(a, recip(b))

(* a > 0.0 *)
FPositive(a) == a.n > 0 /\ a # Unrepresentable

RECURSIVE ISqrtSearch(_, _, _)
ISqrtSearch(k, lo, hi) ==
    IF lo >= hi THEN lo
    ELSE LET mid == (lo + hi + 1) \div 2
         IN  IF mid * mid <= k THEN ISqrtSearch(k, mid, hi)
             ELSE ISqrtSearch(k, lo, mid - 1)

(* largest r with r * r <= k *)
ISqrt(k) == ISqrtSearch(k, 0, IF k < 46340 THEN k ELSE 46340)

IsSquare(k) == k >= 0 /\ ISqrt(k) * ISqrt(k) = k

(* the square root of a is a value of the model *)
HasExactSqrt(a) ==
    /\ a # Unrepresentable
    /\ a.d = 0 \/ (IsSquare(a.n) /\ IsSquare(a.d))

sqrt(a) ==
    IF a = Unrepresentable THEN a
    ELSE IF a.d = 0 THEN (IF a.n = 1 THEN a ELSE NaN)
    ELSE IF a.n < 0 THEN NaN
    ELSE IF HasExactSqrt(a) THEN [n |-> ISqrt(a.n), d |-> ISqrt(a.d)]
    ELSE Unrepresentable

----------------------------------------------------------------------------
(* glam vectors: a Vec2 is <<x, y>>, a Vec3 is <<x, y, z>>                 *)

Vec2_new(x, y) == <<x, y>>

Vec3_new(x, y, z) == <<x, y, z>>

VAdd(u, v) == [k \in DOMAIN u |-> FAdd(u[k], v[k])]

VSub(u, v) == [k \in DOMAIN u |-> FSub(u[k], v[k])]

VNeg(u) == [k \in DOMAIN u |-> FNeg(u[k])]

VScale(u, s) == [k \in DOMAIN u |-> FMul(u[k], s)]

VDivide(u, s) == [k \in DOMAIN u |-> FDiv(u[k], s)]

length_squared(v) ==
    FAdd(FAdd(FMul(v[1], v[1]), FMul(v[2], v[2])), FMul(v[3], v[3]))

length_recip(v) == recip(sqrt(length_squared(v)))

(* try_normalize taken for normalize: the reciprocal length is not checked *)
try_normalize_unchecked(v) == <<VScale(v, length_recip(v))>>

(* Some(v / |v|) as <<unit vector>>, None as <<>> *)
try_normalize(v) ==
    LET rcp == length_recip(v)
    IN  IF is_finite(rcp) /\ FPositive(rcp)
        THEN <<VScale(v, rcp)>>
        ELSE <<>>

ZeroVec2 == Vec2_new(Zero, Zero)

----------------------------------------------------------------------------
(* Bodies                                                                  *)

DT == Q(3, 2)

UpdateAcceleration == "UpdateAcceleration"

UpdateVelocity == "UpdateVelocity"

Movement == "Movement"

PhysicsSystem == {UpdateAcceleration, UpdateVelocity, Movement}

(* BodyBundle::new with the acceleration field filled from vel *)
BodyBundle_new_accFromVel(mass, pos, vel) ==
    [mass         |-> mass,
     transform    |-> Vec3_new(pos[1], pos[2], Int2F(1)),
     velocity     |-> vel,
     acceleration |-> vel]

BodyBundle_new(mass, pos, vel) ==
    [mass         |-> mass,
     transform    |-> Vec3_new(pos[1], pos[2], Int2F(1)),
     velocity     |-> vel,
     acceleration |-> Vec2_new(Zero, Zero)]

(* color is display-only and left out *)
BodyTemplate_new(mass, density, pos, vel) ==
    [mass   |-> mass,
     radius |-> FDiv(mass, density),
     pos    |-> pos,
     vel    |-> vel]

----------------------------------------------------------------------------
(* update_acceleration: the pairwise loop, then the division by mass.      *)
(* The loop state is the sequence acc of the bodies' Acceleration          *)
(* components, and log, the record of the pairs the loop has handled and   *)
(* of the writes it made for each.                                         *)

(* the pair step with the force subtracted from both totals *)
PairStep_sameSign(bs, i, j, st) ==
    LET diff == VSub(bs[i].transform, bs[j].transform)
        norm == try_normalize(diff)
        magnitude == FDiv(FMul(FMul(Int2F(1), bs[i].mass), bs[j].mass),
                          length_squared(diff))
        force == VScale(norm[1], magnitude)
        f == Vec2_new(force[1], force[2])
        acc2 == IF norm # <<>>
                THEN [st.acc EXCEPT ![i] = VSub(@, f), ![j] = VSub(@, f)]
                ELSE st.acc
    IN  [acc |-> acc2,
         log |-> Append(st.log,
                   [later       |-> i,
                    earlier     |-> j,
                    skipped     |-> norm = <<>>,
                    f           |-> IF norm # <<>> THEN f ELSE ZeroVec2,
                    laterAcc    |-> <<st.acc[i], acc2[i]>>,
                    earlierAcc  |-> <<st.acc[j], acc2[j]>>])]

(* the pair step with the displacement taken the other way round *)
PairStep_repel(bs, i, j, st) ==
    LET diff == VSub(bs[j].transform, bs[i].transform)
        norm == try_normalize(diff)
        magnitude == FDiv(FMul(FMul(Int2F(1), bs[i].mass), bs[j].mass),
                          length_squared(diff))
        force == VScale(norm[1], magnitude)
        f == Vec2_new(force[1], force[2])
        acc2 == IF norm # <<>>
                THEN [st.acc EXCEPT ![i] = VSub(@, f), ![j] = VAdd(@, f)]
                ELSE st.acc
    IN  [acc |-> acc2,
         log |-> Append(st.log,
                   [later       |-> i,
                    earlier     |-> j,
                    skipped     |-> norm = <<>>,
                    f           |-> IF norm # <<>> THEN f ELSE ZeroVec2,
                    laterAcc    |-> <<st.acc[i], acc2[i]>>,
                    earlierAcc  |-> <<st.acc[j], acc2[j]>>])]

PairStep(bs, i, j, st) ==
    LET diff == VSub(bs[i].transform, bs[j].transform)
        norm == try_normalize(diff)
        magnitude == FDiv(FMul(FMul(Int2F(1), bs[i].mass), bs[j].mass),
                          length_squared(diff))
        force == VScale(norm[1], magnitude)
        f == Vec2_new(force[1], force[2])
        acc2 == IF norm # <<>>
                THEN [st.acc EXCEPT ![i] = VSub(@, f), ![j] = VAdd(@, f)]
                ELSE st.acc
    IN  [acc |-> acc2,
         log |-> Append(st.log,
                   [later       |-> i,
                    earlier     |-> j,
                    skipped     |-> norm = <<>>,
                    f           |-> IF norm # <<>> THEN f ELSE ZeroVec2,
                    laterAcc    |-> <<st.acc[i], acc2[i]>>,
                    earlierAcc  |-> <<st.acc[j], acc2[j]>>])]

RECURSIVE InnerLoop(_, _, _, _)
InnerLoop(bs, i, j, st) ==
    IF j >= i THEN st
    ELSE InnerLoop(bs, i, j + 1, PairStep(bs, i, j, st))

RECURSIVE OuterLoop(_, _, _)
OuterLoop(bs, i, st) ==
    IF i > Len(bs) THEN st
    ELSE OuterLoop(bs, i + 1, InnerLoop(bs, i, 1, st))

(* the running totals the loop starts from: the Acceleration components   *)
(* as the query hands them out                                             *)
InitialTotals(bs) == [k \in 1..Len(bs) |-> bs[k].acceleration]

PairwiseLoop(bs) == OuterLoop(bs, 1, [acc |-> InitialTotals(bs), log |-> <<>>])

DivideByMass(bs, acc) == [k \in 1..Len(bs) |-> VDivide(acc[k], bs[k].mass)]

AccelerationPass(bs) ==
    LET acc == DivideByMass(bs, PairwiseLoop(bs).acc)
    IN  [k \in 1..Len(bs) |-> [bs[k] EXCEPT !.acceleration = acc[k]]]

(* the velocity pass clearing the acceleration it has used *)
VelocityPass_clearing(bs) ==
    [k \in 1..Len(bs) |->
        [bs[k] EXCEPT !.velocity = VAdd(@, VScale(bs[k].acceleration, DT)),
                      !.acceleration = ZeroVec2]]

VelocityPass(bs) ==
    [k \in 1..Len(bs) |->
        [bs[k] EXCEPT !.velocity = VAdd(@, VScale(bs[k].acceleration, DT))]]

MovementPass(bs) ==
    [k \in 1..Len(bs) |->
        [bs[k] EXCEPT !.transform =
            VAdd(@, VScale(Vec3_new(bs[k].velocity[1], bs[k].velocity[2], Zero),
                           DT))]]

(* every distance the pairwise loop takes is a value of the model *)
ExactLengths(bs) ==
    \A i, j \in 1..Len(bs) :
        HasExactSqrt(length_squared(VSub(bs[i].transform, bs[j].transform)))

(* every number held by the bodies is a value of the model *)
InRange(bs) ==
    \A k \in 1..Len(bs) :
        /\ \A c \in 1..3 : bs[k].transform[c] # Unrepresentable
        /\ \A c \in 1..2 : bs[k].velocity[c] # Unrepresentable
        /\ \A c \in 1..2 : bs[k].acceleration[c] # Unrepresentable

----------------------------------------------------------------------------
(* Inputs: the body templates setup spawns                                 *)

Masses == {1, 2}

LineXs == {-2, 0, 2}

LineVXs == {-1, 0, 1}

Vec2Of(x, y) == Vec2_new(Int2F(x), Int2F(y))

(* the list of main.rs *)
MainTemplates ==
    << BodyTemplate_new(Int2F(200), Int2F(10), Vec2Of(0, 0), Vec2Of(0, 0)),
       BodyTemplate_new(Int2F(50), Int2F(5), Vec2Of(100, 0), Vec2Of(0, -1)),
       BodyTemplate_new(Int2F(50), Int2F(5), Vec2Of(-100, 0), Vec2Of(0, 1)) >>

(* its first two bodies *)
TwoBodyTemplates == SubSeq(MainTemplates, 1, 2)

(* one body, anywhere, any velocity *)
SingleTemplates ==
    { << BodyTemplate_new(Int2F(m), Int2F(1), Vec2Of(x, y), Vec2Of(vx, vy)) >> :
        m \in Masses, x \in {0, 1}, y \in {0, -1},
        vx \in LineVXs, vy \in LineVXs }

(* bodies on the x axis moving along it *)
LineBodies(ms) ==
    { BodyTemplate_new(Int2F(m), Int2F(1), Vec2Of(x, 0), Vec2Of(vx, 0)) :
        m \in ms, x \in LineXs, vx \in LineVXs }

LineTemplates(ms) ==
    { <<a, b>> : a \in LineBodies(ms), b \in LineBodies(ms) }
    \cup { <<a, b, c>> : a \in LineBodies({1}), b \in LineBodies({2}),
                         c \in LineBodies({1}) }

Templates ==
    {MainTemplates, TwoBodyTemplates} \cup SingleTemplates
        \cup LineTemplates(Masses)

AnyMasses == {-1, 0, 1}

AnyMassTemplates ==
    { <<a>> : a \in LineBodies(AnyMasses) }
    \cup { <<a, b>> : a \in LineBodies(AnyMasses), b \in LineBodies(AnyMasses) }

----------------------------------------------------------------------------
(* The schedule                                                            *)

Init ==
    /\ templates \in Templates
    /\ bodies = <<>>
    /\ started = FALSE
    /\ ran = <<>>
    /\ step = 0
    /\ frameStart = <<>>
    /\ passLog = <<>>

InitAnyMass ==
    /\ templates \in AnyMassTemplates
    /\ bodies = <<>>
    /\ started = FALSE
    /\ ran = <<>>
    /\ step = 0
    /\ frameStart = <<>>
    /\ passLog = <<>>

HasRun(label) == \E k \in 1..Len(ran) : ran[k] = label

(* a system runs once per frame, after the startup stage *)
CanRun(label) == started /\ step < MaxSteps /\ ~HasRun(label)

setup ==
    /\ ~started
    /\ started' = TRUE
    /\ bodies' = [k \in 1..Len(templates) |->
                    BodyBundle_new(templates[k].mass, templates[k].pos,
                                   templates[k].vel)]
    /\ frameStart' = bodies'
    /\ UNCHANGED <<templates, ran, step, passLog>>

update_acceleration ==
    /\ CanRun(UpdateAcceleration)
    /\ ExactLengths(bodies)
    /\ bodies' = AccelerationPass(bodies)
    /\ InRange(bodies')
    /\ passLog' = PairwiseLoop(bodies).log
    /\ ran' = Append(ran, UpdateAcceleration)
    /\ UNCHANGED <<templates, started, step, frameStart>>

(* update_velocity without .after(PhysicsSystem::UpdateAcceleration) *)
update_velocity_unordered ==
    /\ CanRun(UpdateVelocity)
    /\ bodies' = VelocityPass(bodies)
    /\ InRange(bodies')
    /\ ran' = Append(ran, UpdateVelocity)
    /\ UNCHANGED <<templates, started, step, frameStart, passLog>>

update_velocity ==
    /\ CanRun(UpdateVelocity)
    /\ HasRun(UpdateAcceleration)
    /\ bodies' = VelocityPass(bodies)
    /\ InRange(bodies')
    /\ ran' = Append(ran, UpdateVelocity)
    /\ UNCHANGED <<templates, started, step, frameStart, passLog>>

(* movement without .after(PhysicsSystem::UpdateVelocity) *)
movement_unordered ==
    /\ CanRun(Movement)
    /\ bodies' = MovementPass(bodies)
    /\ InRange(bodies')
    /\ ran' = Append(ran, Movement)
    /\ UNCHANGED <<templates, started, step, frameStart, passLog>>

movement ==
    /\ CanRun(Movement)
    /\ HasRun(UpdateVelocity)
    /\ bodies' = MovementPass(bodies)
    /\ InRange(bodies')
    /\ ran' = Append(ran, Movement)
    /\ UNCHANGED <<templates, started, step, frameStart, passLog>>

(* the frame is over when every system of the set has run *)
next_frame ==
    /\ started
    /\ \A label \in PhysicsSystem : HasRun(label)
    /\ ran' = <<>>
    /\ step' = step + 1
    /\ frameStart' = bodies
    /\ UNCHANGED <<templates, bodies, started, passLog>>

Next ==
    \/ setup
    \/ update_acceleration
    \/ update_velocity
    \/ movement
    \/ next_frame

Spec == Init /\ [][Next]_vars

SpecAnyMass == InitAnyMass /\ [][Next]_vars

----------------------------------------------------------------------------
(* Notions the properties are stated in                                    *)

Representable(v) == \A c \in DOMAIN v : v[c] # Unrepresentable

Finite(v) == \A c \in DOMAIN v : is_finite(v[c])

PassJustRan == Len(ran) > 0 /\ ran[Len(ran)] = UpdateAcceleration

FrameComplete == Len(ran) = Cardinality(PhysicsSystem)

(* Newton: the force on body i from body j, G m_i m_j (p_j - p_i) / |p_j - p_i|^3, *)
(* and no force between bodies at the same place                                   *)
GravForce(bs, i, j) ==
    LET d  == VSub(bs[j].transform, bs[i].transform)
        l2 == length_squared(d)
        l3 == FMul(l2, sqrt(l2))
    IN  IF l2 = Zero THEN ZeroVec2
        ELSE VScale(Vec2_new(d[1], d[2]),
                    FDiv(FMul(bs[i].mass, bs[j].mass), l3))

RECURSIVE NetForceUpTo(_, _, _)
NetForceUpTo(bs, i, j) ==
    IF j = 0 THEN ZeroVec2
    ELSE IF j = i THEN NetForceUpTo(bs, i, j - 1)
    ELSE VAdd(NetForceUpTo(bs, i, j - 1), GravForce(bs, i, j))

NetForce(bs, i) == NetForceUpTo(bs, i, Len(bs))

RECURSIVE MomentumUpTo(_, _, _)
MomentumUpTo(ms, vs, k) ==
    IF k = 0 THEN ZeroVec2
    ELSE VAdd(MomentumUpTo(ms, vs, k - 1), VScale(vs[k], ms[k]))

Momentum(bs) ==
    MomentumUpTo([k \in 1..Len(bs) |-> bs[k].mass],
                 [k \in 1..Len(bs) |-> bs[k].velocity], Len(bs))

InitialMomentum ==
    MomentumUpTo([k \in 1..Len(templates) |-> templates[k].mass],
                 [k \in 1..Len(templates) |-> templates[k].vel],
                 Len(templates))

----------------------------------------------------------------------------
(* C1: after every update_acceleration pass, each body's acceleration is   *)
(* the net gravitational force on it at the current positions divided by   *)
(* its mass, whatever acceleration it held before the pass.                *)
C1_AccelerationIsNetForceOverMass ==
    PassJustRan =>
        \A i \in 1..Len(bodies) :
            LET a == VDivide(NetForce(bodies, i), bodies[i].mass)
            IN  Representable(a) => bodies[i].acceleration = a

(* C2: the total momentum, the sum of mass[i] * velocity[i], is after any  *)
(* number of steps what it was initially.                                  *)
C2_MomentumConserved ==
    (started /\ Representable(Momentum(bodies)))
        => Momentum(bodies) = InitialMomentum

(* C3: in every frame the systems run in the order update_acceleration,    *)
(* update_velocity, movement, each once; no body's velocity or position is *)
(* integrated before the acceleration pass is over for all bodies, and no  *)
(* body is moved before the velocity pass is over for all bodies.          *)
C3_StagesInOrder ==
    /\ [](ran \in { SubSeq(<<UpdateAcceleration, UpdateVelocity, Movement>>, 1, k) :
                      k \in 0..3 })
    /\ []((started /\ Len(ran) <= 1) =>
            \A i \in 1..Len(bodies) :
                /\ bodies[i].velocity = frameStart[i].velocity
                /\ bodies[i].transform = frameStart[i].transform)
    /\ []((started /\ Len(ran) = 2) =>
            \A i \in 1..Len(bodies) :
                /\ bodies[i].velocity =
                      VAdd(frameStart[i].velocity,
                           VScale(bodies[i].acceleration, DT))
                /\ bodies[i].transform = frameStart[i].transform)
    /\ [][step' # step => (FrameComplete /\ ran' = <<>> /\ step' = step + 1)]_vars

C3_Witness == step = 1 /\ ran = <<UpdateAcceleration, UpdateVelocity, Movement>>

(* C4: at the end of every frame each body has velocity_new = velocity_old *)
(* + acceleration * DT and position_new = position_old + velocity_new * DT *)
(* with the velocity of this same frame.                                   *)
C4_SemiImplicitEuler ==
    FrameComplete =>
        \A i \in 1..Len(bodies) :
            /\ bodies[i].velocity =
                  VAdd(frameStart[i].velocity, VScale(bodies[i].acceleration, DT))
            /\ bodies[i].transform =
                  VAdd(frameStart[i].transform,
                       VScale(Vec3_new(bodies[i].velocity[1],
                                       bodies[i].velocity[2], Zero), DT))

C4_Witness ==
    /\ FrameComplete
    /\ step = 1
    /\ \E i \in 1..Len(bodies) :
          /\ bodies[i].acceleration # ZeroVec2
          /\ frameStart[i].velocity # ZeroVec2
          /\ bodies[i].velocity # frameStart[i].velocity

(* C5: no body with mass <= 0 is ever part of the simulated set.           *)
C5_MassPositive ==
    \A i \in 1..Len(bodies) : FPositive(bodies[i].mass)

(* C6: in a pass, a pair of bodies at the same position is skipped and     *)
(* changes neither total, every other pair contributes its gravitational   *)
(* force, and all accelerations, velocities and positions stay finite to   *)
(* the end of the frame.                                                   *)
C6_CoincidentPairSkipped ==
    HasRun(UpdateAcceleration) =>
        /\ \A k \in 1..Len(passLog) :
              LET e == passLog[k]
                  g == GravForce(frameStart, e.earlier, e.later)
              IN  IF frameStart[e.later].transform = frameStart[e.earlier].transform
                  THEN /\ e.skipped
                       /\ e.laterAcc[2] = e.laterAcc[1]
                       /\ e.earlierAcc[2] = e.earlierAcc[1]
                  ELSE /\ ~e.skipped
                       /\ Representable(g) => e.f = g
                       /\ e.earlierAcc[2] = VAdd(e.earlierAcc[1], e.f)
                       /\ e.laterAcc[2] = VSub(e.laterAcc[1], e.f)
        /\ \A i \in 1..Len(bodies) :
              /\ Finite(bodies[i].acceleration)
              /\ Finite(bodies[i].velocity)
              /\ Finite(bodies[i].transform)

C6_Witness ==
    /\ FrameComplete
    /\ \E k \in 1..Len(passLog) : passLog[k].skipped
    /\ \E k \in 1..Len(passLog) :
          ~passLog[k].skipped /\ passLog[k].f # ZeroVec2

(* C7: a pass handles every unordered pair of distinct bodies exactly      *)
(* once, the later-enumerated body against the earlier one, and for a pair *)
(* at distinct positions subtracts f from the later body's total and adds  *)
(* the same f to the earlier body's total.                                 *)
C7_EachPairOnceEqualAndOpposite ==
    PassJustRan =>
        /\ \A i, j \in 1..Len(bodies) :
              i < j =>
                Cardinality({ k \in 1..Len(passLog) :
                                {passLog[k].later, passLog[k].earlier} = {i, j} }) = 1
        /\ \A k \in 1..Len(passLog) :
              /\ passLog[k].earlier < passLog[k].later
              /\ passLog[k].later \in 1..Len(bodies)
              /\ passLog[k].earlier \in 1..Len(bodies)
              /\ ~passLog[k].skipped =>
                    /\ VSub(passLog[k].laterAcc[2], passLog[k].laterAcc[1])
                          = VNeg(passLog[k].f)
                    /\ VSub(passLog[k].earlierAcc[2], passLog[k].earlierAcc[1])
                          = passLog[k].f

C7_Witness ==
    /\ PassJustRan
    /\ Len(bodies) = 3
    /\ Len(passLog) = 3
    /\ \A k \in 1..3 : ~passLog[k].skipped /\ passLog[k].f # ZeroVec2

(* C8: with bodies {mass 200 at (0,0)} and {mass 50 at (100,0)}, the first *)
(* pass leaves body 0 with acceleration (1/200, 0), towards body 1.        *)
C8_ConcreteScenario ==
    (templates = TwoBodyTemplates /\ step = 0 /\ PassJustRan)
        => bodies[1].acceleration = Vec2_new(Q(1, 200), Zero)

C8_Witness ==
    /\ templates = TwoBodyTemplates
    /\ step = 0
    /\ ran = <<UpdateAcceleration>>
    /\ FPositive(bodies[1].acceleration[1])

(* C9: a single body with nonzero initial velocity v0 has, after k steps,  *)
(* acceleration zero, velocity v0 and position initial + k * DT * v0.      *)
C9_SingleBodyStraightLine ==
    (started /\ Len(templates) = 1 /\ templates[1].vel # ZeroVec2) =>
        /\ bodies[1].acceleration = ZeroVec2
        /\ bodies[1].velocity = templates[1].vel
        /\ ran = <<>> =>
              bodies[1].transform =
                  VAdd(Vec3_new(templates[1].pos[1], templates[1].pos[2], Int2F(1)),
                       VScale(Vec3_new(templates[1].vel[1], templates[1].vel[2], Zero),
                              FMul(Int2F(step), DT)))

C9_Witness ==
    /\ Len(templates) = 1
    /\ templates[1].vel[1] # Zero
    /\ templates[1].vel[2] # Zero
    /\ step = 2
    /\ ran = <<>>

(* C10: the number of bodies and every mass never change, and a system     *)
(* writes its own field only: update_acceleration the accelerations,       *)
(* update_velocity the velocities, movement the positions.                 *)
C10_FrameConditions ==
    [][started =>
        /\ Len(bodies') = Len(bodies)
        /\ \A i \in 1..Len(bodies) :
              /\ bodies'[i].mass = bodies[i].mass
              /\ ran' = Append(ran, UpdateAcceleration) =>
                    /\ bodies'[i].transform = bodies[i].transform
                    /\ bodies'[i].velocity = bodies[i].velocity
              /\ ran' = Append(ran, UpdateVelocity) =>
                    /\ bodies'[i].transform = bodies[i].transform
                    /\ bodies'[i].acceleration = bodies[i].acceleration
              /\ ran' = Append(ran, Movement) =>
                    /\ bodies'[i].velocity = bodies[i].velocity
                    /\ bodies'[i].acceleration = bodies[i].acceleration]_vars

C10_Witness ==
    /\ FrameComplete
    /\ step = 1
    /\ Len(bodies) = 3
    /\ \A i \in 1..3 :
          /\ bodies[i].acceleration # ZeroVec2
          /\ bodies[i].velocity # frameStart[i].velocity
          /\ bodies[i].transform # frameStart[i].transform
====
